---- MODULE Spec2Model ----
(***************************************************************************)
(* Model of the two request handlers of Gartner-Finance-Agent:             *)
(*   - lambda_function.py        the Quote Fetcher                         *)
(*   - lambda_proxy_function.py  the Chat Proxy and its conversation store *)
(* Python strings are TLA+ strings; str[:n] is SubSeq, str.strip() and     *)
(* sorted() are computed character by character.  A JSON body is the       *)
(* structure json.dumps is applied to.                                     *)
(***************************************************************************)
EXTENDS Integers, Sequences, FiniteSets, TLC

(***************************************************************************)
(* Bounds of the model.                                                    *)
(***************************************************************************)
NumDates == 2
NumProcs == 2
MaxSends == 2
MaxTime == 1

(***************************************************************************)
(* Generic helpers for Python built-ins.                                   *)
(***************************************************************************)
Min(a, b) == IF a <= b THEN a ELSE b

\* s[:n]
Take(s, n) == SubSeq(s, 1, Min(n, Len(s)))

\* ord() of the characters that occur in the modelled keys
Ord(c) ==
  CASE c = "-" -> 45
    [] c = "0" -> 48 [] c = "1" -> 49 [] c = "2" -> 50 [] c = "3" -> 51
    [] c = "4" -> 52 [] c = "5" -> 53 [] c = "6" -> 54 [] c = "7" -> 55
    [] c = "8" -> 56 [] c = "9" -> 57

CharAt(s, i) == SubSeq(s, i, i)

\* Python's str < str: code-point lexicographic order, a proper prefix first
RECURSIVE StrLess(_, _)
StrLess(a, b) ==
  IF Len(b) = 0 THEN FALSE
  ELSE IF Len(a) = 0 THEN TRUE
  ELSE IF Ord(CharAt(a, 1)) # Ord(CharAt(b, 1))
       THEN Ord(CharAt(a, 1)) < Ord(CharAt(b, 1))
       ELSE StrLess(SubSeq(a, 2, Len(a)), SubSeq(b, 2, Len(b)))

Digits == {"0", "1", "2", "3", "4", "5", "6", "7", "8", "9"}

IsNumeral(s) == Len(s) > 0 /\ \A i \in 1..Len(s) : CharAt(s, i) \in Digits

\* int(s) / float(s) of a decimal numeral
RECURSIVE ParseNum(_)
ParseNum(s) ==
  IF Len(s) = 0 THEN 0
  ELSE 10 * ParseNum(SubSeq(s, 1, Len(s) - 1)) + (Ord(CharAt(s, Len(s))) - 48)

\* str.upper() on the modelled symbols
UpperChar(c) ==
  CASE c = "t" -> "T" [] c = "s" -> "S" [] c = "l" -> "L" [] c = "a" -> "A"
    [] c = "i" -> "I" [] c = "b" -> "B" [] c = "m" -> "M"
    [] OTHER -> c

RECURSIVE Upper(_)
Upper(s) ==
  IF Len(s) = 0 THEN ""
  ELSE UpperChar(CharAt(s, 1)) \o Upper(SubSeq(s, 2, Len(s)))

(***************************************************************************)
(* Quote Fetcher (lambda_function.py).                                     *)
(***************************************************************************)
DefaultSymbol == "TSLA"

\* event: with or without a 'symbol' key
QuoteEvents == {<<>>, [symbol |-> "tsla"]}

DateList == <<"2024-01-02", "2024-01-01", "2023-12-31", "2024-01-10">>
OpenList == <<"102", "101", "99", "110">>
Dates == {DateList[i] : i \in 1..NumDates}

\* one day's entry of "Time Series (Daily)": numerals as the API sends them
MkBar(o, v) ==
  [open |-> o, high |-> "120", low |-> "9", close |-> "11", volume |-> v]

GoodBar(d) ==
  MkBar(OpenList[CHOOSE i \in 1..Len(DateList) : DateList[i] = d], "500")

\* an entry float() rejects
BadBar == MkBar("1x", "500")

\* every set of dates, with at most one malformed entry
TimeSeriesSet ==
  {[d \in S |-> IF d = bad THEN BadBar ELSE GoodBar(d)] :
      S \in SUBSET Dates, bad \in Dates \cup {"none"}}

ErrorKey == "Error Message"
NoteKey == "Note"
InfoKey == "Information"
SeriesKey == "Time Series (Daily)"
MarkerKeys == {ErrorKey, NoteKey, InfoKey}

\* decoded upstream payloads: every combination of the four keys
Payloads ==
  {[k \in M \cup {SeriesKey} |-> IF k = SeriesKey THEN ts ELSE "text"] :
      M \in SUBSET MarkerKeys, ts \in TimeSeriesSet}
  \cup {[k \in M |-> "text"] : M \in SUBSET MarkerKeys}

\* the Quote Fetcher's state, and the Chat Proxy's (described with its
\* handlers below)
VARIABLES qphase, qevent, qdata, qresp, s3,
          store, sends, pc, loc, last, hist, lastOp

qvars == <<qphase, qevent, qdata, qresp, s3>>

cvars == <<store, sends, pc, loc, last, hist, lastOp>>

Fault(kind) == [fault |-> kind]

Response(code, body) == [statusCode |-> code, body |-> body]

\* the HTTP status of a reply, 0 for an invocation that ended in a fault
Status(r) == IF "statusCode" \in DOMAIN r THEN r.statusCode ELSE 0

\* a classification that tests the rate-limit markers first
ClassifyNoteFirst(data) ==
  IF NoteKey \in DOMAIN data \/ InfoKey \in DOMAIN data THEN 429
  ELSE IF ErrorKey \in DOMAIN data THEN 400
  ELSE IF SeriesKey \notin DOMAIN data THEN 500
  ELSE 200

\* the status the classification returns, 200 standing for the success path
Classify(data) ==
  IF ErrorKey \in DOMAIN data THEN 400
  ELSE IF NoteKey \in DOMAIN data \/ InfoKey \in DOMAIN data THEN 429
  ELSE IF SeriesKey \notin DOMAIN data THEN 500
  ELSE 200

\* sorted(keys)[-1]
SortedLast(keys) == CHOOSE k \in keys : \A o \in keys : ~StrLess(k, o)

\* sorted(keys)[0]: the key no other key is smaller than
SortedFirst(keys) == CHOOSE k \in keys : \A o \in keys : ~StrLess(o, k)

LatestDate(time_series) == SortedFirst(DOMAIN time_series)

BarParses(latest) ==
  /\ IsNumeral(latest.open) /\ IsNumeral(latest.high) /\ IsNumeral(latest.low)
  /\ IsNumeral(latest.close) /\ IsNumeral(latest.volume)

\* the Daily Bar built from the selected entry
Result(symbol, latest_date, latest) ==
  [symbol |-> symbol,
   date   |-> latest_date,
   open   |-> ParseNum(latest.open),
   high   |-> ParseNum(latest.high),
   low    |-> ParseNum(latest.low),
   close  |-> ParseNum(latest.close),
   volume |-> ParseNum(latest.volume)]

EventSymbol(event) ==
  Upper(IF "symbol" \in DOMAIN event THEN event.symbol ELSE DefaultSymbol)

\* the outcome of lambda_handler once the payload is decoded, s3Ok telling
\* whether put_object succeeds
QuoteOutcome(symbol, data, s3Ok) ==
  IF Classify(data) = 400
    THEN Response(400, [error |-> "Invalid symbol: " \o symbol])
  ELSE IF Classify(data) = 429
    THEN Response(429, [error |-> "Alpha Vantage rate limit"])
  ELSE IF Classify(data) = 500
    THEN Response(500, [error |-> "Unexpected response", raw |-> data])
  ELSE IF DOMAIN data[SeriesKey] = {} THEN Fault("IndexError")
  ELSE IF ~BarParses(data[SeriesKey][LatestDate(data[SeriesKey])])
    THEN Fault("ValueError")
  ELSE IF ~s3Ok THEN Fault("S3Error")
  ELSE Response(200, Result(symbol, LatestDate(data[SeriesKey]),
                            data[SeriesKey][LatestDate(data[SeriesKey])]))

QuoteInit ==
  /\ qphase = "none"
  /\ qevent = <<>>
  /\ qdata = <<>>
  /\ qresp = Fault("none")
  /\ s3 = <<>>

\* get_secret_value raises: the invocation ends in an unclassified fault
QuoteSecretFails ==
  /\ \E event \in QuoteEvents : qevent' = event
  /\ qphase' = "secret_failed"
  /\ qdata' = <<>>
  /\ qresp' = Fault("SecretError")
  /\ UNCHANGED s3
  /\ UNCHANGED cvars

\* urlopen / read / decode raises: 500 with the exception text
QuoteFetchFails ==
  /\ \E event \in QuoteEvents : qevent' = event
  /\ qphase' = "fetch_failed"
  /\ qdata' = <<>>
  /\ qresp' = Response(500, [error |-> "exception"])
  /\ UNCHANGED s3
  /\ UNCHANGED cvars

\* the payload is decoded: classification, selection, S3 write, reply
QuoteFetched ==
  \E event \in QuoteEvents, data \in Payloads, s3Ok \in BOOLEAN :
    LET symbol == EventSymbol(event)
        out == QuoteOutcome(symbol, data, s3Ok)
    IN /\ qphase' = "decoded"
       /\ qevent' = event
       /\ qdata' = data
       /\ qresp' = out
       /\ s3' = IF Status(out) = 200
                  THEN [k \in DOMAIN s3 \cup {symbol \o ".json"} |->
                          IF k = symbol \o ".json" THEN data ELSE s3[k]]
                  ELSE s3
       /\ UNCHANGED cvars

(***************************************************************************)
(* Quote Fetcher properties.                                               *)
(***************************************************************************)
Has(k) == k \in DOMAIN qdata

\* C8: a decoded payload is classified by fixed precedence over its marker
\* keys: 400 if "Error Message" is present; otherwise 429 if "Note" or
\* "Information" is present, a time series notwithstanding; otherwise 500 if
\* "Time Series (Daily)" is absent; otherwise the success path is taken (a
\* 200 reply, or a fault raised after classification).
C8_ClassificationPrecedence ==
  qphase = "decoded" =>
    /\ Has(ErrorKey) => Status(qresp) = 400
    /\ (~Has(ErrorKey) /\ (Has(NoteKey) \/ Has(InfoKey))) => Status(qresp) = 429
    /\ (~Has(ErrorKey) /\ ~Has(NoteKey) /\ ~Has(InfoKey) /\ ~Has(SeriesKey))
         => Status(qresp) = 500
    /\ (~Has(ErrorKey) /\ ~Has(NoteKey) /\ ~Has(InfoKey) /\ Has(SeriesKey))
         => Status(qresp) \in {200, 0}

\* a payload with an error marker, a rate-limit marker and a time series
C8_Witness ==
  /\ qphase = "decoded"
  /\ Has(ErrorKey) /\ Has(NoteKey) /\ Has(SeriesKey)
  /\ DOMAIN qdata[SeriesKey] # {}
  /\ Status(qresp) = 400

\* C9: on the success path the bar returned is the one of the smallest date
\* key under string ordering, and the date of the result is that key; for
\* the dates 2024-01-01 and 2024-01-02 it is the bar of 2024-01-01.
C9_SmallestDateSelected ==
  (qphase = "decoded" /\ Status(qresp) = 200) =>
    LET ts == qdata[SeriesKey]
        date == qresp.body.date
    IN /\ date \in DOMAIN ts
       /\ \A d \in DOMAIN ts : d # date => StrLess(date, d)
       /\ qresp.body.open = ParseNum(ts[date].open)
       /\ qresp.body.volume = ParseNum(ts[date].volume)
       /\ DOMAIN ts = {"2024-01-01", "2024-01-02"} =>
            (date = "2024-01-01" /\ qresp.body.open = 101)

C9_Witness ==
  /\ qphase = "decoded"
  /\ Status(qresp) = 200
  /\ DOMAIN qdata[SeriesKey] = {"2024-01-01", "2024-01-02"}
  /\ qresp.body.date = "2024-01-01"

(***************************************************************************)
(* Chat Proxy (lambda_proxy_function.py): inputs.                          *)
(***************************************************************************)
TitleLen == 50
LastMessageLen == 100

DefaultTitle == "New Chat"
NoResponseText == "Agent returned no response. Try rephrasing your query."

Procs == 1..NumProcs

\* the clock values time.time() may return, in milliseconds
Times == 1..MaxTime

\* context.aws_request_id
RequestIds == {"req1"}

\* f"session-{context.aws_request_id}"
DefaultSession(request_id) == "session-" \o request_id

\* the session ids a client names: the ones an earlier send handed out
SessionIds == {DefaultSession(r) : r \in RequestIds}

LongMessage == "  What is the outlook for TSLA over the next two quarters?\n"

MessageInputs == {" \t", "New Chat", LongMessage}

TitleInputs == {"", " \t", " Q3 "}

\* a record from a set of <<key, value>> pairs
MkBody(fields) ==
  [k \in {f[1] : f \in fields} |-> (CHOOSE f \in fields : f[1] = k)[2]]

\* a key that may be missing
Opt(key, values) == {{}} \cup {{<<key, v>>} : v \in values}

\* a body with no key at all, and send bodies with or without a sessionId
SendBodies ==
  {MkBody({})} \cup
  {MkBody({<<"action", "send">>, <<"message", m>>} \cup s) :
     m \in MessageInputs, s \in Opt("sessionId", SessionIds)}

ListBodies == {MkBody({<<"action", "list">>})}

DeleteBodies ==
  {MkBody({<<"action", "delete">>} \cup s) :
     s \in Opt("sessionId", SessionIds)}

RenameBodies ==
  {MkBody({<<"action", "rename">>} \cup s \cup t) :
     s \in Opt("sessionId", SessionIds),
     t \in Opt("title", TitleInputs)}

OtherBodies == {MkBody({<<"action", "export">>})}

\* event['body'] after json.loads, or a body that is not JSON
InvalidJson == [invalid |-> "json"]

\* dict.get(key, default)
Get(d, key, default) == IF key \in DOMAIN d THEN d[key] ELSE default

Whitespace == {" ", "\t", "\n"}

\* str.strip()
RECURSIVE LStrip(_)
LStrip(s) ==
  IF Len(s) > 0 /\ CharAt(s, 1) \in Whitespace
    THEN LStrip(SubSeq(s, 2, Len(s)))
    ELSE s

RECURSIVE RStrip(_)
RStrip(s) ==
  IF Len(s) > 0 /\ CharAt(s, Len(s)) \in Whitespace
    THEN RStrip(SubSeq(s, 1, Len(s) - 1))
    ELSE s

Strip(s) == RStrip(LStrip(s))

\* the events of the agent's completion stream
Chunk(text) == [chunk |-> [bytes |-> text, decodes |-> TRUE]]
BadChunk == [chunk |-> [bytes |-> "", decodes |-> FALSE]]
TraceEvent == [trace |-> "t"]

Streams ==
  {<<>>,
   <<Chunk(" "), TraceEvent>>,
   <<BadChunk, Chunk(" "), Chunk("Buy low.\n")>>}

\* the text accumulated from the first n events of the stream (the loop
\* breaks before event n+1 when the 30 s budget is spent)
RECURSIVE Accumulate(_, _)
Accumulate(stream, n) ==
  IF n = 0 THEN ""
  ELSE LET ev == stream[n]
       IN Accumulate(stream, n - 1) \o
            (IF "chunk" \in DOMAIN ev /\ ev.chunk.decodes
               THEN ev.chunk.bytes ELSE "")

\* the completion after the stream loop and the blank check
Completion(stream, n) ==
  IF Strip(Accumulate(stream, n)) = "" THEN NoResponseText
  ELSE Accumulate(stream, n)

\* the completions the agent's streams and the time budget can produce
Completions ==
  UNION {{Completion(stream, n) : n \in 0..Len(stream)} : stream \in Streams}

(***************************************************************************)
(* Chat Proxy: the conversation store (DynamoDB table StockAgent-History). *)
(* An item is a function from the attribute names it has to their values;  *)
(* the table is a function from the sessionIds that have an item.          *)
(***************************************************************************)
Message(role, content, timestamp) ==
  [role |-> role, content |-> content, timestamp |-> timestamp]

\* the two messages of one exchange
Exchange(user_message, bot_response, timestamp) ==
  <<Message("user", user_message, timestamp),
    Message("assistant", bot_response, timestamp + 1)>>

\* the title a send gives a conversation that has none
TitleFrom(user_message) ==
  IF Len(user_message) > 0 THEN Take(user_message, TitleLen) ELSE DefaultTitle

\* put_item's Item for a new conversation
NewItem(user_message, bot_response, timestamp) ==
  [title        |-> TitleFrom(user_message),
   messages     |-> Exchange(user_message, bot_response, timestamp),
   lastMessage  |-> Take(bot_response, LastMessageLen),
   messageCount |-> 2,
   createdAt    |-> timestamp,
   updatedAt    |-> timestamp]

\* a send that always takes the title from its own message
KeptTitleOverwritten(item, user_message) == TitleFrom(user_message)

\* keep the existing title, or replace a missing, empty or default one
KeptTitle(item, user_message) ==
  IF "title" \notin DOMAIN item \/ item.title = "" \/ item.title = DefaultTitle
    THEN TitleFrom(user_message)
    ELSE item.title

\* an append that drops the user message
AppendedAssistantOnly(item, user_message, bot_response, timestamp) ==
  Get(item, "messages", <<>>)
    \o <<Message("assistant", bot_response, timestamp + 1)>>

\* the messages of the item read, with the new exchange appended
Appended(item, user_message, bot_response, timestamp) ==
  Get(item, "messages", <<>>) \o Exchange(user_message, bot_response, timestamp)

\* a count that is the one of a new conversation
UpdateValuesCountTwo(item, user_message, bot_response, timestamp) ==
  [messages     |-> Appended(item, user_message, bot_response, timestamp),
   lastMessage  |-> Take(bot_response, LastMessageLen),
   messageCount |-> 2,
   updatedAt    |-> timestamp,
   title        |-> KeptTitle(item, user_message)]

\* update_item's SET values, computed from the item that get_item returned
UpdateValues(item, user_message, bot_response, timestamp) ==
  [messages     |-> Appended(item, user_message, bot_response, timestamp),
   lastMessage  |-> Take(bot_response, LastMessageLen),
   messageCount |-> Len(Appended(item, user_message, bot_response, timestamp)),
   updatedAt    |-> timestamp,
   title        |-> KeptTitle(item, user_message)]

\* table.put_item: the item replaces whatever the key held
PutItem(table, key, item) ==
  [k \in DOMAIN table \cup {key} |-> IF k = key THEN item ELSE table[k]]

\* an update that appends the new exchange to the messages the item holds
\* at the time of the write
SetAttributesMerging(table, key, values) ==
  LET old == IF key \in DOMAIN table THEN table[key] ELSE <<>>
      n == IF "messages" \in DOMAIN values THEN Len(values.messages) ELSE 0
  IN PutItem(table, key,
       [a \in DOMAIN old \cup DOMAIN values |->
          IF a = "messages" /\ a \in DOMAIN values /\ a \in DOMAIN old
            THEN old.messages \o SubSeq(values.messages, n - 1, n)
          ELSE IF a \in DOMAIN values THEN values[a] ELSE old[a]])

\* table.update_item with a SET expression and no condition: the attributes
\* are set on the item of the key, which is created if the key has none
SetAttributes(table, key, values) ==
  LET old == IF key \in DOMAIN table THEN table[key] ELSE <<>>
  IN PutItem(table, key,
       [a \in DOMAIN old \cup DOMAIN values |->
          IF a \in DOMAIN values THEN values[a] ELSE old[a]])

\* table.delete_item
DeleteItem(table, key) == [k \in DOMAIN table \ {key} |-> table[k]]

(***************************************************************************)
(* Chat Proxy: state.                                                      *)
(*   store    the conversation table                                       *)
(*   sends    the number of sends that reached persistence                 *)
(*   pc       per invocation slot: "ready" (no request in progress),       *)
(*            "get" (before get_item), "write" (before put/update_item)    *)
(*   loc      the locals of a send in progress                             *)
(*   last     the request that returned last: its body (for a send, the    *)
(*            action alone), its reply and, for a send, whether the save   *)
(*            succeeded ("none", "ok", "failed")                           *)
(*   hist     per sessionId, the exchanges persisted since the key last    *)
(*            had no item or was deleted, each with the status its send    *)
(*            returned (history variable)                                  *)
(*   lastOp   per sessionId, the last request that wrote it (history       *)
(*            variable): "none", "send", "rename"                          *)
(***************************************************************************)
NoEvent == [none |-> "event"]

ChatInit ==
  /\ store = <<>>
  /\ sends = 0
  /\ pc = [p \in Procs |-> "ready"]
  /\ loc = [p \in Procs |-> <<>>]
  /\ last = [body |-> NoEvent, resp |-> Fault("none"), saved |-> "none"]
  /\ hist = [sid \in SessionIds |-> <<>>]
  /\ lastOp = [sid \in SessionIds |-> "none"]

SendTag == [action |-> "send"]

\* no request is in progress
Quiet == \A p \in Procs : pc[p] = "ready"

\* slot p may take a request: it is free and, when the requests are handled
\* one at a time, so is every other slot
CanBegin(p, sequential) == pc[p] = "ready" /\ (sequential => Quiet)

\* the invocation of slot p ends with reply r, which is recorded when the
\* requests are handled one at a time
Return(p, sequential, body, r, sv) ==
  /\ pc' = [pc EXCEPT ![p] = "ready"]
  /\ loc' = [loc EXCEPT ![p] = <<>>]
  /\ last' = IF sequential THEN [body |-> body, resp |-> r, saved |-> sv]
              ELSE last

\* a reply that turns a failed save into an error
SendReplyFailing(session_id, completion, save_ok) ==
  IF save_ok
    THEN Response(200, [response |-> completion, sessionId |-> session_id])
    ELSE Response(500, [error |-> "Internal server error"])

\* the reply of a send whose agent call succeeded: the same whether the save
\* raised (caught and logged) or not
SendReply(session_id, completion, save_ok) ==
  Response(200, [response |-> completion, sessionId |-> session_id])

\* lambda_handler on a body that is not JSON or names no known action
HandleBadRequest(p, sequential) ==
  /\ CanBegin(p, sequential)
  /\ \E body \in {InvalidJson} \cup OtherBodies :
       Return(p, sequential, body,
              IF body = InvalidJson
                THEN Response(400, [error |-> "Invalid JSON in request"])
                ELSE Response(400, [error |-> "Unknown action: " \o body.action]),
              "none")
  /\ UNCHANGED <<store, sends, hist, lastOp>>
  /\ UNCHANGED qvars

\* handle_send_message up to the call of save_message_to_db
HandleSend(p, sequential) ==
  /\ CanBegin(p, sequential)
  /\ \E body \in SendBodies, request_id \in RequestIds :
       LET user_message == Strip(Get(body, "message", ""))
           session_id == Get(body, "sessionId", DefaultSession(request_id))
       IN IF user_message = ""
            THEN /\ Return(p, sequential, SendTag, Response(400, [error |-> "Empty message"]),
                           "none")
                 /\ UNCHANGED sends
            ELSE \/ /\ Return(p, sequential, SendTag,
                              Response(500, [error |-> "Bedrock service error"]),
                              "none")
                    /\ UNCHANGED sends
                 \/ /\ Return(p, sequential, SendTag,
                              Response(500, [error |-> "Internal server error"]),
                              "none")
                    /\ UNCHANGED sends
                 \/ /\ sends < MaxSends
                    /\ sends' = sends + 1
                    /\ \E completion \in Completions :
                         loc' = [loc EXCEPT ![p] =
                                   [session_id   |-> session_id,
                                    user_message |-> user_message,
                                    completion   |-> Strip(completion)]]
                    /\ pc' = [pc EXCEPT ![p] = "get"]
                    /\ UNCHANGED last
  /\ UNCHANGED <<store, hist, lastOp>>
  /\ UNCHANGED qvars

\* save_message_to_db: the timestamp and get_item
SaveRead(p, sequential) ==
  /\ pc[p] = "get"
  /\ \/ /\ pc' = [pc EXCEPT ![p] = "write"]
        /\ \E t \in Times :
             loc' = [loc EXCEPT ![p] =
               [session_id   |-> loc[p].session_id,
                user_message |-> loc[p].user_message,
                completion   |-> loc[p].completion,
                timestamp    |-> t,
                found        |-> loc[p].session_id \in DOMAIN store,
                item         |-> IF loc[p].session_id \in DOMAIN store
                                   THEN store[loc[p].session_id] ELSE <<>>]]
        /\ UNCHANGED last
     \/ Return(p, sequential, SendTag,
               SendReply(loc[p].session_id, loc[p].completion, FALSE), "failed")
  /\ UNCHANGED <<store, sends, hist, lastOp>>
  /\ UNCHANGED qvars

\* save_message_to_db: update_item or put_item, then the reply of the send
SaveWrite(p, sequential) ==
  /\ pc[p] = "write"
  /\ LET l == loc[p]
     IN \/ /\ store' =
                IF l.found
                  THEN SetAttributes(store, l.session_id,
                         UpdateValues(l.item, l.user_message, l.completion,
                                      l.timestamp))
                  ELSE PutItem(store, l.session_id,
                         NewItem(l.user_message, l.completion, l.timestamp))
           /\ hist' = [hist EXCEPT ![l.session_id] =
                Append(@, [user   |-> l.user_message,
                           bot    |-> l.completion,
                           status |-> Status(SendReply(l.session_id,
                                                       l.completion, TRUE))])]
           /\ lastOp' = [lastOp EXCEPT ![l.session_id] = "send"]
           /\ Return(p, sequential, SendTag, SendReply(l.session_id, l.completion, TRUE),
                     "ok")
        \/ /\ Return(p, sequential, SendTag, SendReply(l.session_id, l.completion, FALSE),
                     "failed")
           /\ UNCHANGED <<store, hist, lastOp>>
  /\ UNCHANGED sends
  /\ UNCHANGED qvars

\* handle_delete_conversation
HandleDelete(p, sequential) ==
  /\ CanBegin(p, sequential)
  /\ \E body \in DeleteBodies :
       LET session_id == Get(body, "sessionId", "")
       IN IF session_id = ""
            THEN /\ Return(p, sequential, body,
                           Response(400, [error |-> "sessionId required"]), "none")
                 /\ UNCHANGED <<store, hist, lastOp>>
            ELSE \/ /\ store' = DeleteItem(store, session_id)
                    /\ hist' = [hist EXCEPT ![session_id] = <<>>]
                    /\ lastOp' = [lastOp EXCEPT ![session_id] = "none"]
                    /\ Return(p, sequential, body, Response(200, [success |-> TRUE]), "none")
                 \/ /\ Return(p, sequential, body, Response(500, [error |-> "store error"]),
                              "none")
                    /\ UNCHANGED <<store, hist, lastOp>>
  /\ UNCHANGED sends
  /\ UNCHANGED qvars

\* a title check that accepts every title
TitleMissingNever(new_title) == FALSE

\* `if not new_title`
TitleMissing(new_title) == new_title = ""

\* handle_rename_conversation
HandleRename(p, sequential) ==
  /\ CanBegin(p, sequential)
  /\ \E body \in RenameBodies :
       LET session_id == Get(body, "sessionId", "")
           new_title == Strip(Get(body, "title", ""))
       IN IF session_id = ""
            THEN /\ Return(p, sequential, body,
                           Response(400, [error |-> "sessionId required"]), "none")
                 /\ UNCHANGED <<store, lastOp>>
          ELSE IF TitleMissing(new_title)
            THEN /\ Return(p, sequential, body,
                           Response(400, [error |-> "title required"]), "none")
                 /\ UNCHANGED <<store, lastOp>>
            ELSE \/ /\ store' = SetAttributes(store, session_id,
                                              [title |-> new_title])
                    /\ lastOp' = [lastOp EXCEPT ![session_id] = "rename"]
                    /\ Return(p, sequential, body, Response(200, [success |-> TRUE]), "none")
                 \/ /\ Return(p, sequential, body, Response(500, [error |-> "store error"]),
                              "none")
                    /\ UNCHANGED <<store, lastOp>>
  /\ UNCHANGED <<sends, hist>>
  /\ UNCHANGED qvars

\* a Number attribute as the table resource returns it (decimal.Decimal),
\* and a Python int
FromStore(n) == [n |-> n, decimal |-> TRUE]
PyInt(n) == [n |-> n, decimal |-> FALSE]

\* item.get(name, default) of a Number attribute
NumberOr(item, name, default) ==
  IF name \in DOMAIN item THEN FromStore(item[name]) ELSE default

\* the projection of one scanned item
ListEntry(session_id, item) ==
  [sessionId    |-> session_id,
   title        |-> Get(item, "title", DefaultTitle),
   lastMessage  |-> Get(item, "lastMessage", ""),
   timestamp    |-> NumberOr(item, "updatedAt",
                             NumberOr(item, "createdAt", PyInt(0))),
   messageCount |-> NumberOr(item, "messageCount", PyInt(0))]

\* the orders in which scan may return the items
ScanOrders(table) ==
  {o \in [1..Cardinality(DOMAIN table) -> DOMAIN table] :
     \A i, j \in DOMAIN o : i # j => o[i] # o[j]}

\* e placed behind the entries whose timestamp is not smaller
InsertDesc(sorted, e) ==
  LET k == Cardinality({i \in DOMAIN sorted :
                          sorted[i].timestamp.n >= e.timestamp.n})
  IN SubSeq(sorted, 1, k) \o <<e>> \o SubSeq(sorted, k + 1, Len(sorted))

\* list.sort(key=timestamp, reverse=True): stable, newest first
RECURSIVE SortDesc(_)
SortDesc(entries) ==
  IF entries = <<>> THEN <<>>
  ELSE InsertDesc(SortDesc(SubSeq(entries, 1, Len(entries) - 1)),
                  entries[Len(entries)])

\* json.dumps without default= accepts int, not decimal.Decimal
JsonSerializable(conversations) ==
  \A i \in DOMAIN conversations :
    /\ ~conversations[i].timestamp.decimal
    /\ ~conversations[i].messageCount.decimal

DecimalError == "Object of type Decimal is not JSON serializable"

\* handle_list_conversations
HandleList(p, sequential) ==
  /\ CanBegin(p, sequential)
  /\ \E body \in ListBodies :
       \/ \E order \in ScanOrders(store) :
            LET conversations ==
                  SortDesc([i \in DOMAIN order |->
                              ListEntry(order[i], store[order[i]])])
            IN Return(p, sequential, body,
                      IF JsonSerializable(conversations)
                        THEN Response(200, [conversations |-> conversations])
                        ELSE Response(500, [error |-> DecimalError]),
                      "none")
       \/ Return(p, sequential, body, Response(500, [error |-> "store error"]), "none")
  /\ UNCHANGED <<store, sends, hist, lastOp>>
  /\ UNCHANGED qvars

vars == <<qphase, qevent, qdata, qresp, s3,
          store, sends, pc, loc, last, hist, lastOp>>

Init == QuoteInit /\ ChatInit

\* the Quote Fetcher alone
QuoteNext == QuoteSecretFails \/ QuoteFetchFails \/ QuoteFetched

QuoteSpec == Init /\ [][QuoteNext]_vars

\* the conversation store under concurrent send, rename and delete requests:
\* the store calls of different requests interleave; the replies are not
\* recorded
Next ==
  \/ \E p \in Procs : HandleSend(p, FALSE)
  \/ \E p \in Procs : SaveRead(p, FALSE)
  \/ \E p \in Procs : SaveWrite(p, FALSE)
  \/ \E p \in Procs : HandleDelete(p, FALSE)
  \/ \E p \in Procs : HandleRename(p, FALSE)

Spec == Init /\ [][Next]_vars

\* the Chat Proxy with one request at a time, each reply recorded in last
SeqNext ==
  \/ \E p \in Procs : HandleBadRequest(p, TRUE)
  \/ \E p \in Procs : HandleSend(p, TRUE)
  \/ \E p \in Procs : SaveRead(p, TRUE)
  \/ \E p \in Procs : SaveWrite(p, TRUE)
  \/ \E p \in Procs : HandleList(p, TRUE)
  \/ \E p \in Procs : HandleDelete(p, TRUE)
  \/ \E p \in Procs : HandleRename(p, TRUE)

SeqSpec == Init /\ [][SeqNext]_vars

(***************************************************************************)
(* Chat Proxy properties.                                                  *)
(***************************************************************************)
Messages(item) == Get(item, "messages", <<>>)

MessageCount(item) == Get(item, "messageCount", 0)

\* slot p completes a successful put_item / update_item in this step
Persists(p) == pc[p] = "write" /\ pc'[p] = "ready" /\ hist' # hist

\* C1: in every reachable state of the store, under every interleaving of
\* the store calls of send, rename and delete requests, every stored record
\* has messageCount equal to the length of its messages (an absent attribute
\* counting as 0 / empty).
C1_MessageCountIsLength ==
  \A sid \in DOMAIN store :
    MessageCount(store[sid]) = Len(Messages(store[sid]))

\* a record two sends appended to and a rename then touched
C1_Witness ==
  \E sid \in DOMAIN store :
    /\ MessageCount(store[sid]) = 4
    /\ Len(Messages(store[sid])) = 4
    /\ lastOp[sid] = "rename"

\* C2: k sequential successful sends to a sessionId leave a record whose
\* messages are the 2k messages of the k exchanges, user then assistant, in
\* the order of the sends, with messageCount = 2k (2 after the first send, 4
\* after the second).
C2_SequentialSendsAppendPairs ==
  \A sid \in SessionIds :
    hist[sid] # <<>> =>
      /\ sid \in DOMAIN store
      /\ Len(Messages(store[sid])) = 2 * Len(hist[sid])
      /\ MessageCount(store[sid]) = 2 * Len(hist[sid])
      /\ \A i \in 1..Len(hist[sid]) :
           /\ Messages(store[sid])[2 * i - 1].role = "user"
           /\ Messages(store[sid])[2 * i - 1].content = hist[sid][i].user
           /\ Messages(store[sid])[2 * i].role = "assistant"
           /\ Messages(store[sid])[2 * i].content = hist[sid][i].bot

\* two sends with different messages have persisted
C2_Witness ==
  \E sid \in DOMAIN store :
    /\ Len(hist[sid]) = 2
    /\ hist[sid][1].user # hist[sid][2].user
    /\ MessageCount(store[sid]) = 4

\* slot p completes a successful save in this step of the sequential system
SavesOk(p) == pc[p] = "write" /\ pc'[p] = "ready" /\ last'.saved = "ok"

\* C3 as stated: the title is the first 50 characters of the first user
\* message and no later send changes it (no rename or delete in between).
C3_TitleNeverChangedBySend ==
  [][\A p \in Procs :
       SavesOk(p) =>
         LET sid == loc[p].session_id
         IN /\ sid \notin DOMAIN store =>
                 store'[sid].title = Take(loc[p].user_message, TitleLen)
            /\ (sid \in DOMAIN store /\ lastOp[sid] = "send") =>
                 store'[sid].title = store[sid].title]_vars

\* C3 amended: the send that creates the record sets the title to the first
\* 50 characters of its user message; a send that follows a send (no rename
\* or delete in between) leaves the title unchanged unless the stored title
\* is the placeholder "New Chat", in which case it sets the title to the
\* first 50 characters of its own user message.
C3_TitleKeptUnlessPlaceholder ==
  [][\A p \in Procs :
       SavesOk(p) =>
         LET sid == loc[p].session_id
         IN /\ sid \notin DOMAIN store =>
                 store'[sid].title = Take(loc[p].user_message, TitleLen)
            /\ (sid \in DOMAIN store /\ lastOp[sid] = "send"
                  /\ store[sid].title # DefaultTitle) =>
                 store'[sid].title = store[sid].title
            /\ (sid \in DOMAIN store /\ lastOp[sid] = "send"
                  /\ store[sid].title = DefaultTitle) =>
                 store'[sid].title = Take(loc[p].user_message, TitleLen)]_vars

\* a second send with another message has kept the 50-character title of
\* the first
C3_Witness ==
  \E sid \in DOMAIN store :
    /\ Len(hist[sid]) = 2
    /\ lastOp[sid] = "send"
    /\ Len(hist[sid][1].user) > TitleLen
    /\ store[sid].title = Take(hist[sid][1].user, TitleLen)
    /\ store[sid].title # Take(hist[sid][2].user, TitleLen)

\* C4: the save is a read-then-write with no concurrency control: what a
\* send writes is the messages its get_item returned plus its own exchange,
\* whatever was written to the record in between, so of two sends that both
\* read before either writes, both returning 200 and both persisting, the
\* stored messages hold the exchange of the second writer only.
C4_LastWriterWins ==
  [][\A p \in Procs :
       Persists(p) =>
         LET sid == loc[p].session_id
         IN /\ sid \in DOMAIN store'
            /\ Messages(store'[sid]) =
                 Messages(loc[p].item)
                   \o Exchange(loc[p].user_message, loc[p].completion,
                               loc[p].timestamp)
            /\ hist'[sid][Len(hist'[sid])].status = 200]_vars

\* two sends persisted and returned 200, and the record holds the exchange
\* of one of them only
C4_Witness ==
  \E sid \in DOMAIN store :
    /\ Len(hist[sid]) = 2
    /\ hist[sid][1].status = 200 /\ hist[sid][2].status = 200
    /\ hist[sid][1].user # hist[sid][2].user
    /\ Len(Messages(store[sid])) = 2
    /\ Messages(store[sid])[1].content = hist[sid][2].user

\* C5: when the agent call of a send succeeded and get_item or the write
\* raises, the reply is still 200 with the agent's response text and the
\* sessionId.
C5_SaveFailureStill200 ==
  [][\A p \in Procs :
       (pc[p] \in {"get", "write"} /\ pc'[p] = "ready"
          /\ last'.saved = "failed") =>
         last'.resp = Response(200, [response  |-> loc[p].completion,
                                     sessionId |-> loc[p].session_id])]_vars

C5_Witness ==
  /\ last.saved = "failed"
  /\ Status(last.resp) = 200
  /\ last.resp.body.response = "Buy low."
  /\ last.resp.body.sessionId \notin DOMAIN store

\* C6: a record exists for a sessionId only if a send for it has persisted
\* since its last delete; no rename creates a record.
C6_RecordOnlyBySend ==
  \A sid \in DOMAIN store : hist[sid] # <<>>

IsRename(body) == "action" \in DOMAIN body /\ body.action = "rename"

BlankTitle(body) == Strip(Get(body, "title", "")) = ""

\* C7: a rename whose title is missing, empty or whitespace-only is answered
\* 400 and the step leaves the store as it was, for every sessionId and every
\* store state.
C7_BlankRenameRejected ==
  [][(IsRename(last'.body) /\ BlankTitle(last'.body)) =>
       (Status(last'.resp) = 400 /\ store' = store)]_vars

\* a whitespace-only title for a session that has a record
C7_Witness ==
  /\ IsRename(last.body)
  /\ "title" \in DOMAIN last.body /\ last.body.title = " \t"
  /\ "sessionId" \in DOMAIN last.body
  /\ last.body.sessionId \in DOMAIN store
  /\ Status(last.resp) = 400

IsList(body) == "action" \in DOMAIN body /\ body.action = "list"

\* the timestamp the list entry of an item is to carry
EntryTimestamp(item) ==
  IF "updatedAt" \in DOMAIN item THEN item.updatedAt
  ELSE IF "createdAt" \in DOMAIN item THEN item.createdAt
  ELSE 0

\* C10: list (its scan succeeding) returns one entry per stored record,
\* ordered by non-increasing timestamp, the timestamp being updatedAt, else
\* createdAt, else 0, and does not change the store.
C10_ListSortedByTimestamp ==
  [][(IsList(last'.body) /\ last'.resp # Response(500, [error |-> "store error"]))
       => /\ store' = store
          /\ Status(last'.resp) = 200
          /\ LET conversations == last'.resp.body.conversations
             IN /\ Len(conversations) = Cardinality(DOMAIN store)
                /\ \A sid \in DOMAIN store :
                     \E i \in DOMAIN conversations :
                       /\ conversations[i].sessionId = sid
                       /\ conversations[i].timestamp.n =
                            EntryTimestamp(store[sid])
                /\ \A i, j \in DOMAIN conversations :
                     i < j => conversations[i].timestamp.n
                                >= conversations[j].timestamp.n]_vars

====
